---- MODULE Spec2Model ----
(***************************************************************************)
(* A model of code/model.py (class CRW): the contrastive random walk over  *)
(* the node embeddings of a video.  Tensors are tuples indexed from 1.     *)
(* Real numbers are fixed-point integers: a probability p is stored as     *)
(* p * One, truncated, the way a float keeps a rounded value.              *)
(***************************************************************************)
EXTENDS Integers, Sequences, FiniteSets, TLC

VARIABLES
    args,           \* self.args and the attributes __init__ reads from it
    selfsim_fc,     \* the head built by make_head in __init__
    xent_cache,     \* self._xent_targets: key -> reference of the cached array
    heap,           \* the arrays xent_targets built: reference -> array
    ret,            \* outcome of the last call of forward
    log,            \* the calls of xent_targets made so far: key and reference returned
    probe           \* outcome of the last direct pair of calls of stoch_mat

vars == <<args, selfsim_fc, xent_cache, heap, ret, log, probe>>

---------------------------------------------------------------------------
(* Bounds of the model *)
MaxT == 4          \* time steps of a clip
MaxB == 2          \* batch size
MaxN == 2          \* nodes per frame
MaxDrop == 1       \* random draws of one call that fall below the rate
MaxSites == 24     \* random draws of one forward pass with a positive rate
MaxDepth == 2      \* head_depth
MaxCalls == 3      \* direct calls of xent_targets on one instance

(* Values of the program and of the number representation *)
One == 60          \* fixed-point 1.0
ExpOne == 2        \* exp(1 / temperature), the weight of affinity 1 against 0
Sentinel == -100   \* stands for -1e20
LogEps == 3986     \* -log2(EPS) in fixed point, EPS = 1e-20
OutDim == 128      \* output width of the head
HidDim == 512      \* enc_hid_dim, probed from the encoder
MapScale == 8      \* map_scale, probed from the encoder
Rgb == 3           \* colour channels of one patch

Rates == {0, 50}                 \* edge-dropout rate, in hundredths
Devices == {<<"cpu">>, <<"cuda", ":", "0">>}   \* str(device), as tokens
Contents == {0, 1}         \* pixel contents of the clips tried

---------------------------------------------------------------------------
(* Arithmetic helpers *)
(* The tuple s, evaluated once: an element read later is not computed again *)
Tup(s) == s \o <<>>

RECURSIVE SumSeq(_)
SumSeq(s) == IF s = <<>> THEN 0 ELSE Head(s) + SumSeq(Tail(s))

RECURSIVE Pow(_, _)
Pow(b, e) == IF e <= 0 THEN 1 ELSE b * Pow(b, e - 1)

Max2(a, b) == IF a >= b THEN a ELSE b

RECURSIVE MaxSeq(_)
MaxSeq(s) == IF Len(s) = 1 THEN s[1] ELSE Max2(s[1], MaxSeq(Tail(s)))

CeilDiv(a, b) == (a + b - 1) \div b

Reverse(s) == Tup([j \in 1..Len(s) |-> s[Len(s) + 1 - j]])

RECURSIVE Flatten(_)
Flatten(ss) == IF ss = <<>> THEN <<>> ELSE Head(ss) \o Flatten(Tail(ss))

RECURSIVE SubsetsUpTo(_, _)
SubsetsUpTo(S, k) ==
    IF k <= 0 THEN {{}}
    ELSE LET P == SubsetsUpTo(S, k - 1)
         IN  P \cup {p \cup {s} : p \in P, s \in S}

---------------------------------------------------------------------------
(* make_head: the fully connected head of the node embeddings *)
Linear(d1, d2) == [op |-> "Linear", d1 |-> d1, d2 |-> d2]
ReLU == [op |-> "ReLU", d1 |-> 0, d2 |-> 0]

make_head_keep_relu(depth) ==
    IF depth >= 0
    THEN LET dims == <<HidDim>> \o Tup([k \in 1..depth |-> HidDim]) \o <<OutDim>>
         IN  Tup([j \in 1..(2 * (Len(dims) - 1)) |->
                 IF j % 2 = 1 THEN Linear(dims[(j + 1) \div 2], dims[(j + 1) \div 2 + 1])
                 ELSE ReLU])
    ELSE <<>>

make_head(depth) ==
    IF depth >= 0
    THEN LET dims == <<HidDim>> \o Tup([k \in 1..depth |-> HidDim]) \o <<OutDim>>
             head == Tup([j \in 1..(2 * (Len(dims) - 1)) |->
                         IF j % 2 = 1
                         THEN Linear(dims[(j + 1) \div 2], dims[(j + 1) \div 2 + 1])
                         ELSE ReLU])
         IN  SubSeq(head, 1, Len(head) - 1)
    ELSE <<>>

(* Width of the features the head returns for features of width d. *)
RECURSIVE HeadOut(_, _)
HeadOut(head, d) ==
    IF head = <<>> THEN d
    ELSE IF Head(head).op = "Linear" THEN HeadOut(Tail(head), Head(head).d2)
    ELSE HeadOut(Tail(head), d)

---------------------------------------------------------------------------
(* Matrices: a batch of N x M matrices is A[b][n][m] *)
Transpose(A) ==
    Tup([b \in 1..Len(A) |->
        Tup([m \in 1..Len(A[b][1]) |-> Tup([n \in 1..Len(A[b]) |-> A[b][n][m]])])])

MatMul(P, Q) ==
    Tup([b \in 1..Len(P) |->
        Tup([n \in 1..Len(P[b]) |->
            Tup([m \in 1..Len(Q[b][1]) |->
                SumSeq(Tup([j \in 1..Len(Q[b]) |-> P[b][n][j] * Q[b][j][m]])) \div One])])])

(* zeroout_diag: the diagonal multiplied by 0 *)
zeroout_diag(A) ==
    Tup([b \in 1..Len(A) |->
        Tup([n \in 1..Len(A[b]) |->
            Tup([m \in 1..Len(A[b][n]) |-> IF n = m THEN 0 ELSE A[b][n][m]])])])

(* exp((x - max) / temperature), as a multiple of exp(-1 / temperature):
   softmax takes the row maximum off before it exponentiates, and the
   exponential of a sentinel's distance underflows to 0. *)
ExpWeight(d) == IF d = 0 THEN ExpOne ELSE IF d = -1 THEN 1 ELSE 0

SoftmaxRow(row) ==
    LET mx == MaxSeq(row)
        w  == Tup([m \in 1..Len(row) |-> ExpWeight(row[m] - mx)])
        s  == SumSeq(w)
    IN  Tup([m \in 1..Len(row) |-> (w[m] * One) \div s])

Softmax(A) == Tup([b \in 1..Len(A) |-> Tup([n \in 1..Len(A[b]) |-> SoftmaxRow(A[b][n])])])

(* A[torch.rand_like(A) < rate] = -1e20 *)
DropEdges(A, R, rate) ==
    Tup([b \in 1..Len(A) |->
        Tup([n \in 1..Len(A[b]) |->
            Tup([m \in 1..Len(A[b][n]) |->
                IF R[b][n][m] < rate THEN Sentinel ELSE A[b][n][m]])])])

(* stoch_mat that drops edges whatever do_dropout says *)
stoch_mat_always_drop(A, R, rate, zero_diagonal, do_dropout) ==
    LET A1 == IF zero_diagonal THEN zeroout_diag(A) ELSE A
        A2 == IF rate > 0 THEN DropEdges(A1, R, rate) ELSE A1
    IN  [res |-> Softmax(A2), seen |-> A2, arg |-> IF zero_diagonal THEN A ELSE A2]

(* stoch_mat that drops edges in a copy of the array it was given *)
stoch_mat_on_copy(A, R, rate, zero_diagonal, do_dropout) ==
    LET A1 == IF zero_diagonal THEN zeroout_diag(A) ELSE A
        A2 == IF do_dropout /\ rate > 0 THEN DropEdges(A1, R, rate) ELSE A1
    IN  [res |-> Softmax(A2), seen |-> A2, arg |-> A]

(* stoch_mat(A, zero_diagonal, do_dropout) without Sinkhorn normalisation.
   R is what torch.rand_like(A) draws.  res is the matrix returned, seen the
   affinities the softmax was taken of, arg the caller's array after the call:
   the assignment writes into the array passed in, unless zeroout_diag has made
   a new one. *)
stoch_mat(A, R, rate, zero_diagonal, do_dropout) ==
    LET A1 == IF zero_diagonal THEN zeroout_diag(A) ELSE A
        A2 == IF do_dropout /\ rate > 0 THEN DropEdges(A1, R, rate) ELSE A1
    IN  [res |-> Softmax(A2), seen |-> A2, arg |-> IF zero_diagonal THEN A ELSE A2]

---------------------------------------------------------------------------
(* Python values: a dict keeps its keys in insertion order *)
DictKeys(d) == Tup([j \in 1..Len(d) |-> d[j].key])

DictSet(d, key, val) ==
    IF \E j \in 1..Len(d) : d[j].key = key
    THEN Tup([j \in 1..Len(d) |-> IF d[j].key = key THEN [key |-> key, val |-> val] ELSE d[j]])
    ELSE Append(d, [key |-> key, val |-> val])

Str(n) == ToString(n)

---------------------------------------------------------------------------
(* Node extraction.  The encoder is outside the repository's walk code: its
   features are taken to be one-hot unit vectors, kept as the index of the
   channel that is 1, a function of the clip's pixel contents. *)
Channels == {1, 2}

(* The nodes of a frame carry different vectors in some frames and one and
   the same vector in the others *)
NodeHot(content, b, t, n) ==
    1 + ((n * (1 + (((t \div 2) + content) % 2)) + t * b + content)
            % Cardinality(Channels))

(* pixels_to_nodes: x is B x N x 3 x T x H x W.  feats.hot is indexed
   [t][b][n]; maps is the shape of the feature maps returned. *)
pixels_to_nodes(head, x, patches) ==
    LET mh == x.H \div MapScale
        mw == x.W \div MapScale
        N  == IF patches = 1 THEN mh * mw ELSE patches
    IN  [feats |-> [shape |-> <<x.B, HeadOut(head, HidDim), x.T, N>>,
                    hot   |-> Tup([t \in 1..x.T |-> Tup([b \in 1..x.B |->
                                  Tup([n \in 1..N |-> NodeHot(x.content, b, t, n)])])])],
         maps  |-> IF patches = 1 THEN <<x.B, N, HidDim, x.T, 1, 1>>
                   ELSE <<x.B, N, HidDim, x.T, mh, mw>>]

(* extract_sp_feat returns the pair (final_feats, final_segment): one feature
   array of max_sp_num rows per time step, and a list that stays empty. *)
extract_sp_feat(T, max_sp_num) ==
    <<Tup([t \in 1..T |-> <<max_sp_num, HidDim>>]), <<>>>>

(* image_to_nodes unpacks three values from each call of extract_sp_feat *)
image_to_nodes(head, x, max_sp_num) ==
    IF \E b \in 1..x.B : Len(extract_sp_feat(x.T, max_sp_num)) # 3
    THEN [raised |-> TRUE, exc |-> "ValueError",
          feats |-> [shape |-> <<>>, hot |-> <<>>], maps |-> <<>>]
    ELSE [raised |-> FALSE, exc |-> "",
          feats |-> [shape |-> <<x.B, HeadOut(head, HidDim), x.T, max_sp_num>>,
                     hot   |-> Tup([t \in 1..x.T |-> Tup([b \in 1..x.B |->
                                   Tup([n \in 1..max_sp_num |-> NodeHot(x.content, b, t, n)])])])],
          maps |-> <<>>]

(* affinity: einsum("bctn,bctm->btnm") of two stretches of frames; the result
   is indexed [t][b][n][m] *)
Dot(u, v) ==
    SumSeq(Tup([c \in 1..Cardinality(Channels) |->
               (IF u = c THEN 1 ELSE 0) * (IF v = c THEN 1 ELSE 0)]))

affinity(x1, x2) ==
    Tup([t \in 1..Len(x1) |-> Tup([b \in 1..Len(x1[t]) |->
        Tup([n \in 1..Len(x1[t][b]) |-> Tup([m \in 1..Len(x2[t][b]) |->
            Dot(x1[t][b][n], x2[t][b][m])])])])])

---------------------------------------------------------------------------
(* xent_targets *)
TargetArrayInterleaved(B, M) == Tup([j \in 1..(B * M) |-> (j - 1) \div B])

(* torch.arange(M)[None].repeat(B, 1).view(-1) *)
TargetArray(B, M) == Flatten(Tup([b \in 1..B |-> Tup([j \in 1..M |-> j - 1])]))

(* "%s:%sx%s" % (str(A.device), B, N), as tokens *)
CacheKey(dev, B, N) == dev \o <<":", Str(B), "x", Str(N)>>

xent_targets_rebuild(cache, hp, shape, dev) ==
    LET key == CacheKey(dev, shape[1], shape[2])
        id  == Len(hp) + 1
    IN  [cache |-> [k \in DOMAIN cache \cup {key} |-> IF k = key THEN id ELSE cache[k]],
         hp    |-> Append(hp, [device |-> dev, data |-> TargetArray(shape[1], shape[3])]),
         key |-> key, ref |-> id]

(* xent_targets(A) for A of the given shape on device dev: the cache and the
   heap after the call, and the reference returned *)
xent_targets(cache, hp, shape, dev) ==
    LET key == CacheKey(dev, shape[1], shape[2])
    IN  IF key \notin DOMAIN cache
        THEN LET id == Len(hp) + 1
             IN  [cache |-> [k \in DOMAIN cache \cup {key} |->
                                IF k = key THEN id ELSE cache[k]],
                  hp    |-> Append(hp, [device |-> dev,
                                        data |-> TargetArray(shape[1], shape[3])]),
                  key |-> key, ref |-> id]
        ELSE [cache |-> cache, hp |-> hp, key |-> key, ref |-> cache[key]]

---------------------------------------------------------------------------
(* The loss of one walk.  Logarithms are to base 2 and fixed-point like the
   probabilities: log2 is exact at the powers of 2 and linear between them. *)
RECURSIVE Halvings(_, _)
Halvings(p, k) == IF 2 * p * Pow(2, k) > One THEN k ELSE Halvings(p, k + 1)

(* -log2(p + EPS) *)
NegLog(p) ==
    IF p <= 0 THEN LogEps
    ELSE IF p >= One THEN 0
    ELSE LET k == Halvings(p, 0)
         IN  k * One + 2 * (One - p * Pow(2, k))

(* 2^l for a logit l <= 0 *)
Exp2(l) ==
    IF l <= -LogEps THEN 0
    ELSE (One - ((-l) % One) \div 2) \div Pow(2, (-l) \div One)

(* torch.log(A + EPS).flatten(0, -2): one row per batch item and source node *)
Logits(A) == Flatten(Tup([b \in 1..Len(A) |->
                 Tup([n \in 1..Len(A[b]) |->
                     Tup([m \in 1..Len(A[b][n]) |-> -NegLog(A[b][n][m])])])]))

(* nn.CrossEntropyLoss(reduction="none") of one row: -log_softmax(row)[target] *)
CrossEntropy(row, target) ==
    -row[target + 1] - NegLog(SumSeq(Tup([m \in 1..Len(row) |-> Exp2(row[m])])))

Mean(s) == SumSeq(s) \div Len(s)

(* torch.argmax of a row, counted from 0: the first of the largest entries *)
ArgMax(row) ==
    (CHOOSE m \in 1..Len(row) :
        /\ \A j \in 1..Len(row) : row[j] <= row[m]
        /\ \A j \in 1..(m - 1) : row[j] < row[m]) - 1

WalkLoss(A, target) ==
    LET lg == Logits(A)
    IN  Mean(Tup([r \in 1..Len(lg) |-> CrossEntropy(lg[r], target[r])]))

WalkAcc(A, target) ==
    LET lg == Logits(A)
    IN  Mean(Tup([r \in 1..Len(lg) |-> IF ArgMax(lg[r]) = target[r] THEN One ELSE 0]))

TotalLossCountAll(xents) == SumSeq(xents) \div Max2(1, Len(xents))

(* sum(xents) / max(1, len(xents) - 1) *)
TotalLoss(xents) == SumSeq(xents) \div Max2(1, Len(xents) - 1)

---------------------------------------------------------------------------
(* The walks of forward *)
WalkLengthsFromZero(n) == Tup([j \in 1..n |-> j - 1])

(* list(range(1, len(A12s))) *)
WalkLengths(n) == Tup([j \in 1..(n - 1) |-> j])

PalindromeUnreversed(A12s, A21s, i) == SubSeq(A12s, 1, i + 1) \o SubSeq(A21s, 1, i + 1)

(* g = A12s[: i + 1] + A21s[: i + 1][::-1] *)
Palindrome(A12s, A21s, i) == SubSeq(A12s, 1, i + 1) \o Reverse(SubSeq(A21s, 1, i + 1))

(* aar, aal = aar @ _a, _a @ aal, for every _a of g[1:] *)
RECURSIVE ComposeFrom(_, _, _, _)
ComposeFrom(g, j, aar, aal) ==
    IF j > Len(g) THEN [aar |-> aar, aal |-> aal]
    ELSE ComposeFrom(g, j + 1, MatMul(aar, g[j]), MatMul(g[j], aal))

Compose(g) == ComposeFrom(g, 2, g[1], g[1])

KeepWalkSwapped(flip, i, c) ==
    IF flip THEN [name |-> <<"l", Str(i)>>, aa |-> c.aar]
    ELSE [name |-> <<"r", Str(i)>>, aa |-> c.aal]

(* (f"l{i}", aal) if self.flip else (f"r{i}", aar) *)
KeepWalk(flip, i, c) ==
    IF flip THEN [name |-> <<"l", Str(i)>>, aa |-> c.aal]
    ELSE [name |-> <<"r", Str(i)>>, aa |-> c.aar]

(* walks[f"cyc {i}"] = [aa, self.xent_targets(aa)], for every entry of AAs *)
RECURSIVE EmitWalks(_, _, _, _)
EmitWalks(AAs, j, dev, st) ==
    IF j > Len(AAs) THEN st
    ELSE LET aa == AAs[j].aa
             r  == xent_targets(st.cache, st.hp,
                                <<Len(aa), Len(aa[1]), Len(aa[1][1])>>, dev)
         IN  EmitWalks(AAs, j + 1, dev,
                 [walks |-> DictSet(st.walks, <<"cyc">> \o AAs[j].name,
                                    [A |-> aa, target |-> r.ref]),
                  cache |-> r.cache, hp |-> r.hp,
                  calls |-> Append(st.calls, [key |-> r.key, ref |-> r.ref])])

(* What torch.rand_like draws in the c-th call of stoch_mat of a forward
   pass, in hundredths: the sites of low fall below every positive rate. *)
RandField(low, c, B, N, M) ==
    Tup([b \in 1..B |-> Tup([n \in 1..N |-> Tup([m \in 1..M |->
        IF <<c, b, n, m>> \in low THEN 0 ELSE 99])])])

---------------------------------------------------------------------------
(* forward *)
NoFeats == [shape |-> <<>>, hot |-> <<>>]

(* What a call of forward leaves behind.  outcome is "returned" or "raised";
   stage tells how far the call got: "nodes", "feats" or "walks".  The fields
   from As0 on are the locals of the walk stage. *)
Outcome(cache, hp) ==
    [outcome |-> "raised", exc |-> "", stage |-> "nodes", value |-> <<>>,
     q |-> NoFeats, mm |-> <<>>, loss |-> 0, diags |-> <<>>, walks |-> <<>>,
     xents |-> <<>>, As0 |-> <<>>, As |-> <<>>, A12s |-> <<>>, A21s |-> <<>>,
     seen12 |-> <<>>, seen21 |-> <<>>, gs |-> <<>>,
     cache |-> cache, hp |-> hp, calls |-> <<>>]

(* diags.update({f"{H} xent {name}": loss, f"{H} acc {name}": acc}) per walk *)
RECURSIVE Diagnose(_, _, _, _, _)
Diagnose(walks, j, hp, H, d) ==
    IF j > Len(walks) THEN d
    ELSE LET A      == walks[j].val.A
             target == hp[walks[j].val.target].data
             d1     == DictSet(d, <<Str(H), "xent">> \o walks[j].key, WalkLoss(A, target))
             d2     == DictSet(d1, <<Str(H), "acc">> \o walks[j].key, WalkAcc(A, target))
         IN  Diagnose(walks, j + 1, hp, H, d2)

(* xents = [0.0] + [loss of every walk] *)
Xents(walks, hp) ==
    <<0>> \o Tup([j \in 1..Len(walks) |->
                 WalkLoss(walks[j].val.A, hp[walks[j].val.target].data)])

(* The walk stage of forward, for the embeddings q *)
ComputeWalks(a, cache, hp, x, q, low) ==
    LET B    == q.shape[1]
        T    == q.shape[3]
        N    == q.shape[4]
        As0  == affinity(SubSeq(q.hot, 1, T - 1), SubSeq(q.hot, 2, T))
        s12  == Tup([k \in 1..Len(As0) |->
                    stoch_mat(As0[k], RandField(low, k, B, N, N), a.dropout, FALSE, TRUE)])
        A12s == Tup([k \in 1..Len(As0) |-> s12[k].res])
        As1  == Tup([k \in 1..Len(As0) |-> s12[k].arg])
        base == [Outcome(cache, hp) EXCEPT !.stage = "walks", !.q = q, !.As0 = As0,
                    !.As = As1, !.A12s = A12s,
                    !.seen12 = Tup([k \in 1..Len(As0) |-> s12[k].seen])]
    IN  IF ~a.sk_targets
        THEN LET s21  == Tup([k \in 1..Len(As0) |->
                             stoch_mat(Transpose(As1[k]),
                                       RandField(low, Len(As0) + k, B, N, N),
                                       a.dropout, FALSE, TRUE)])
                 A21s == Tup([k \in 1..Len(As0) |-> s21[k].res])
                 As2  == Tup([k \in 1..Len(As0) |-> Transpose(s21[k].arg)])
                 lens == WalkLengths(Len(A12s))
                 gs   == Tup([j \in 1..Len(lens) |-> Palindrome(A12s, A21s, lens[j])])
                 AAs  == Tup([j \in 1..Len(lens) |-> KeepWalk(a.flip, lens[j], Compose(gs[j]))])
                 em   == EmitWalks(AAs, 1, a.device,
                             [walks |-> <<>>, cache |-> cache, hp |-> hp, calls |-> <<>>])
                 xents == Xents(em.walks, em.hp)
             IN  [base EXCEPT !.outcome = "returned", !.value = <<"q", "loss", "diags">>,
                     !.As = As2, !.A21s = A21s,
                     !.seen21 = Tup([k \in 1..Len(As0) |-> s21[k].seen]),
                     !.gs = gs, !.walks = em.walks, !.xents = xents,
                     !.loss = TotalLoss(xents),
                     !.diags = Diagnose(em.walks, 1, em.hp, x.H, <<>>),
                     !.cache = em.cache, !.hp = em.hp, !.calls = em.calls]
        \* a12, at = A12s[0], self.stoch_mat(A[:, 0], ...): no local A is bound yet
        ELSE IF Len(A12s) = 0 THEN [base EXCEPT !.exc = "IndexError"]
        ELSE [base EXCEPT !.exc = "UnboundLocalError"]

(* forward(x, superpixel_mask, max_sp_num, just_feats) on an instance with
   configuration a, head and cache; low is what the random draws will be. *)
forward(a, head, cache, hp, x, mask, max_sp_num, just_feats, low) ==
    LET patches == x.C \div Rgb
        nodes   == IF mask = "None"
                   THEN LET p == pixels_to_nodes(head, x, patches)
                        IN  [raised |-> FALSE, exc |-> "", feats |-> p.feats, maps |-> p.maps]
                   ELSE image_to_nodes(head, x, max_sp_num)
        blank   == Outcome(cache, hp)
    IN  IF nodes.raised THEN [blank EXCEPT !.exc = nodes.exc]
        ELSE LET q == nodes.feats
                 h == CeilDiv(x.H, MapScale)
                 w == CeilDiv(x.W, MapScale)
             IN  IF just_feats
                 THEN IF mask # "None"                       \* _N is not bound
                      THEN [blank EXCEPT !.exc = "UnboundLocalError", !.stage = "feats"]
                      ELSE IF patches > 1
                      THEN [blank EXCEPT !.outcome = "returned", !.stage = "feats",
                               !.value = <<"q", "mm">>, !.q = q, !.mm = nodes.maps]
                      ELSE IF h * w # q.shape[4]             \* q.view(..., h, w)
                      THEN [blank EXCEPT !.exc = "RuntimeError", !.stage = "feats"]
                      ELSE [blank EXCEPT !.outcome = "returned", !.stage = "feats",
                               !.value = <<"q", "q.view">>, !.q = q,
                               !.mm = <<q.shape[1], q.shape[2], q.shape[3], h, w>>]
                 ELSE ComputeWalks(a, cache, hp, x, q, low)

---------------------------------------------------------------------------
(* The instance and the calls made on it *)
DefaultArgs ==
    [dropout |-> 0, flip |-> FALSE, sk_targets |-> FALSE, head_depth |-> 0,
     device |-> <<"cuda", ":", "0">>]

(* The configurations tried: every setting of dropout, flip and sk_targets
   with the default head, and every head depth with the other defaults *)
ArgsSet ==
    {a \in [dropout : Rates, flip : BOOLEAN, sk_targets : BOOLEAN,
            head_depth : -1..MaxDepth, device : {DefaultArgs.device}] :
        \/ a.head_depth = DefaultArgs.head_depth
        \/ (a.dropout = 0 /\ ~a.flip /\ ~a.sk_targets)}

(* Clips B x T x C x H x W: lists of patches (C = 3 * patches, patches > 1)
   and whole frames (C = 3), whose nodes are the cells of the feature map *)
Clips ==
    [B : 1..MaxB, T : 1..MaxT, C : {Rgb * p : p \in 2..MaxN},
     H : {2 * MapScale}, W : {2 * MapScale}, content : Contents]
    \cup
    [B : 1..MaxB, T : 1..MaxT, C : {Rgb},
     H : {MapScale}, W : {MapScale * n : n \in 1..MaxN}, content : Contents]

NoCall == [called |-> FALSE, x |-> <<>>, mask |-> "None", just_feats |-> FALSE, low |-> {}]

NoProbe ==
    [called |-> FALSE, A0 |-> <<>>, zero_diagonal |-> FALSE, do_dropout |-> FALSE,
     low1 |-> {}, low2 |-> {}, res1 |-> <<>>, res2 |-> <<>>, A |-> <<>>]

(* The entries torch.rand_like draws in one call of forward: one per entry
   of the affinity in every call of stoch_mat, none unless the walk stage runs
   with a positive rate *)
Sites(a, head, x, mask, just_feats) ==
    IF mask # "None" \/ just_feats \/ a.dropout = 0 THEN {}
    ELSE LET N == pixels_to_nodes(head, x, x.C \div Rgb).feats.shape[4]
             calls == IF a.sk_targets THEN x.T - 1 ELSE 2 * (x.T - 1)
         IN  (1..calls) \X (1..x.B) \X (1..N) \X (1..N)

Init ==
    /\ args \in ArgsSet
    /\ selfsim_fc = make_head(args.head_depth)
    /\ xent_cache = [k \in {} |-> 0]
    /\ heap = <<>>
    /\ ret = [in |-> NoCall, out |-> Outcome([k \in {} |-> 0], <<>>)]
    /\ log = <<>>
    /\ probe = NoProbe

Forward ==
    /\ ~ret.in.called
    /\ \E x \in Clips, just_feats \in BOOLEAN :
         \E mask \in (IF x.C = Rgb THEN {"None", "given"} ELSE {"None"}) :
           /\ Cardinality(Sites(args, selfsim_fc, x, mask, just_feats)) <= MaxSites
           /\ \E low \in SubsetsUpTo(Sites(args, selfsim_fc, x, mask, just_feats), MaxDrop) :
                LET r == forward(args, selfsim_fc, xent_cache, heap, x, mask,
                                 MaxN, just_feats, low)
                IN  /\ ret' = [in |-> [called |-> TRUE, x |-> x, mask |-> mask,
                                       just_feats |-> just_feats, low |-> low],
                               out |-> r]
                    /\ xent_cache' = r.cache
                    /\ heap' = r.hp
                    /\ log' = log \o [j \in 1..Len(r.calls) |->
                                         [dev |-> args.device, B |-> x.B,
                                          N |-> r.q.shape[4], key |-> r.calls[j].key,
                                          ref |-> r.calls[j].ref]]
    /\ UNCHANGED <<args, selfsim_fc, probe>>

Next == Forward

Spec == Init /\ [][Next]_vars

---------------------------------------------------------------------------
(* Calls of xent_targets on one instance, for arrays B x N x N on any device *)
InitDefault ==
    /\ args = DefaultArgs
    /\ selfsim_fc = make_head(args.head_depth)
    /\ xent_cache = [k \in {} |-> 0]
    /\ heap = <<>>
    /\ ret = [in |-> NoCall, out |-> Outcome([k \in {} |-> 0], <<>>)]
    /\ log = <<>>
    /\ probe = NoProbe

XentTargetsCall ==
    /\ Len(log) < MaxCalls
    /\ \E dev \in Devices, B \in 1..MaxB, N \in 1..MaxN :
         LET r == xent_targets(xent_cache, heap, <<B, N, N>>, dev)
         IN  /\ xent_cache' = r.cache
             /\ heap' = r.hp
             /\ log' = Append(log, [dev |-> dev, B |-> B, N |-> N,
                                    key |-> r.key, ref |-> r.ref])
    /\ UNCHANGED <<args, selfsim_fc, ret, probe>>

NextCache == XentTargetsCall

SpecCache == InitDefault /\ [][NextCache]_vars

---------------------------------------------------------------------------
(* Two calls of stoch_mat with the same arguments, each with its own random
   draws.  The array is the affinity of the first two frames of a clip. *)
InitStoch ==
    /\ args \in {a \in ArgsSet : a.head_depth = DefaultArgs.head_depth
                                  /\ ~a.flip /\ ~a.sk_targets}
    /\ selfsim_fc = make_head(args.head_depth)
    /\ xent_cache = [k \in {} |-> 0]
    /\ heap = <<>>
    /\ ret = [in |-> NoCall, out |-> Outcome([k \in {} |-> 0], <<>>)]
    /\ log = <<>>
    /\ probe = NoProbe

StochMatTwice ==
    /\ ~probe.called
    /\ \E x \in {c \in Clips : c.T = 2},
          zero_diagonal \in BOOLEAN, do_dropout \in BOOLEAN :
         LET q  == pixels_to_nodes(selfsim_fc, x, x.C \div Rgb).feats
             N  == q.shape[4]
             A0 == affinity(SubSeq(q.hot, 1, 1), SubSeq(q.hot, 2, 2))[1]
         IN  \E low \in SubsetsUpTo((1..2) \X (1..x.B) \X (1..N) \X (1..N), MaxDrop) :
               LET r1 == stoch_mat(A0, RandField(low, 1, x.B, N, N), args.dropout,
                                   zero_diagonal, do_dropout)
                   r2 == stoch_mat(r1.arg, RandField(low, 2, x.B, N, N), args.dropout,
                                   zero_diagonal, do_dropout)
               IN  probe' = [called |-> TRUE, A0 |-> A0,
                             zero_diagonal |-> zero_diagonal, do_dropout |-> do_dropout,
                             low1 |-> {d \in low : d[1] = 1}, low2 |-> {d \in low : d[1] = 2},
                             res1 |-> r1.res, res2 |-> r2.res, A |-> r2.arg]
    /\ UNCHANGED <<args, selfsim_fc, xent_cache, heap, ret, log>>

NextStoch == StochMatTwice

SpecStoch == InitStoch /\ [][NextStoch]_vars

---------------------------------------------------------------------------
(* Properties of forward, checked under Spec *)

(* The call of forward has reached the walk stage: the embeddings are there
   and just_feats is false *)
WalkStage == ret.in.called /\ ret.out.stage = "walks"

(* The walk stage in palindrome mode *)
PalStage == WalkStage /\ ~args.sk_targets

TimeSteps == ret.out.q.shape[3]

(* C1: in palindrome mode one call of forward on embeddings of T time steps
   emits exactly one (distribution, target) walk for each length 1..T-2, in
   increasing order of length, and none when T <= 2. *)
C1_OneWalkPerLength ==
    PalStage =>
        /\ ret.out.outcome = "returned"
        /\ Len(ret.out.walks) = Max2(0, TimeSteps - 2)
        /\ \A j \in 1..Len(ret.out.walks) :
             /\ ret.out.walks[j].key[1] = "cyc"
             /\ ret.out.walks[j].key[3] = Str(j)
             /\ DOMAIN ret.out.walks[j].val = {"A", "target"}
        /\ (TimeSteps = 3 => Len(ret.out.walks) = 1)

C1_Witness == PalStage /\ TimeSteps = 4 /\ Len(ret.out.walks) = 2

(* The affinity of frames k and k + 1 of the embeddings q *)
FrameAffinity(q, k) ==
    Tup([b \in 1..q.shape[1] |-> Tup([n \in 1..q.shape[4] |-> Tup([m \in 1..q.shape[4] |->
        Dot(q.hot[k][b][n], q.hot[k + 1][b][m])])])])

(* seen is A, but for the entries an edge dropout has replaced *)
BuiltFrom(seen, A) ==
    \A b \in 1..Len(A) : \A n \in 1..Len(A[b]) : \A m \in 1..Len(A[b][n]) :
        seen[b][n][m] \in {A[b][n][m], Sentinel}

(* C2: for every walk length i the matrices composed are A12[0..i] followed
   by A21[i..0], 2(i+1) factors, A12[k] built from the affinity of frames k
   and k+1 and A21[k] from its transpose. *)
C2_PalindromeFactors ==
    PalStage =>
        /\ Len(ret.out.gs) = Max2(0, TimeSteps - 2)
        /\ \A i \in 1..Len(ret.out.gs) :
             /\ Len(ret.out.gs[i]) = 2 * (i + 1)
             /\ \A k \in 0..i :
                  /\ ret.out.gs[i][k + 1] = ret.out.A12s[k + 1]
                  /\ ret.out.gs[i][2 * i + 2 - k] = ret.out.A21s[k + 1]
        /\ Len(ret.out.A12s) = TimeSteps - 1
        /\ Len(ret.out.A21s) = TimeSteps - 1
        /\ \A k \in 1..(TimeSteps - 1) :
             /\ ret.out.A12s[k] = Softmax(ret.out.seen12[k])
             /\ BuiltFrom(ret.out.seen12[k], FrameAffinity(ret.out.q, k))
             /\ ret.out.A21s[k] = Softmax(ret.out.seen21[k])
             /\ BuiltFrom(ret.out.seen21[k], Transpose(FrameAffinity(ret.out.q, k)))

C2_Witness ==
    /\ PalStage
    /\ Len(ret.out.gs) = 2
    /\ ret.out.A21s[1] # ret.out.A21s[3]
    /\ ret.out.A12s[1] # ret.out.A12s[2]
    /\ ret.out.A12s[1] # ret.out.A21s[1]

RECURSIVE RightProduct(_)
RightProduct(g) ==
    IF Len(g) = 1 THEN g[1]
    ELSE MatMul(RightProduct(SubSeq(g, 1, Len(g) - 1)), g[Len(g)])

RECURSIVE LeftProduct(_)
LeftProduct(g) ==
    IF Len(g) = 1 THEN g[1]
    ELSE MatMul(g[Len(g)], LeftProduct(SubSeq(g, 1, Len(g) - 1)))

(* C3: the walk kept for a palindrome g is the product in which every step
   post-multiplies when flip is false and the one in which every step
   pre-multiplies when flip is true; one of the two per length, under the key
   "cyc r<i>" or "cyc l<i>". *)
C3_CompositionByFlip ==
    PalStage =>
        /\ Len(ret.out.walks) = Len(ret.out.gs)
        /\ \A i \in 1..Len(ret.out.walks) :
             /\ ret.out.walks[i].key = <<"cyc", IF args.flip THEN "l" ELSE "r", Str(i)>>
             /\ ret.out.walks[i].val.A = IF args.flip THEN LeftProduct(ret.out.gs[i])
                                         ELSE RightProduct(ret.out.gs[i])

C3_Witness ==
    /\ PalStage
    /\ args.flip
    /\ Len(ret.out.walks) = 2
    /\ LeftProduct(ret.out.gs[2]) # RightProduct(ret.out.gs[2])
    /\ ret.out.walks[2].val.A = LeftProduct(ret.out.gs[2])

(* The losses of the walks emitted, each computed from its distribution and
   its target *)
WalkLosses ==
    Tup([j \in 1..Len(ret.out.walks) |->
        WalkLoss(ret.out.walks[j].val.A, heap[ret.out.walks[j].val.target].data)])

(* C4: the loss returned is the mean of the losses of the walks emitted, 0
   when there is none, and diags holds two entries, xent and acc, per walk. *)
C4_LossIsMean ==
    (WalkStage /\ ret.out.outcome = "returned") =>
        /\ Len(ret.out.walks) = 0 => ret.out.loss = 0
        /\ Len(ret.out.walks) > 0 =>
               ret.out.loss = SumSeq(WalkLosses) \div Len(ret.out.walks)
        /\ Len(ret.out.diags) = 2 * Len(ret.out.walks)
        /\ \A j \in 1..Len(ret.out.walks) :
             /\ ret.out.diags[2 * j - 1] =
                    [key |-> <<Str(ret.in.x.H), "xent">> \o ret.out.walks[j].key,
                     val |-> WalkLosses[j]]
             /\ ret.out.diags[2 * j].key =
                    <<Str(ret.in.x.H), "acc">> \o ret.out.walks[j].key

C4_Witness ==
    /\ WalkStage
    /\ ret.out.outcome = "returned"
    /\ Len(ret.out.walks) = 2
    /\ WalkLosses[1] # WalkLosses[2]
    /\ ret.out.loss > 0
    /\ ret.out.loss = SumSeq(WalkLosses) \div 2

(* C6: the target of every palindrome walk of shape (B, N, N) is the array of
   length B * N whose entry at position k, counted from 0, is k mod N. *)
C6_IdentityTarget ==
    /\ TargetArray(1, 4) = <<0, 1, 2, 3>>
    /\ PalStage =>
         \A j \in 1..Len(ret.out.walks) :
            LET A == ret.out.walks[j].val.A
                t == heap[ret.out.walks[j].val.target].data
            IN  /\ Len(t) = Len(A) * Len(A[1])
                /\ \A k \in 1..Len(t) : t[k] = (k - 1) % Len(A[1])

C6_Witness ==
    /\ PalStage
    /\ Len(ret.out.walks) = 2
    /\ Len(ret.out.walks[2].val.A) = 2
    /\ Len(ret.out.walks[2].val.A[1]) = 2
    /\ heap[ret.out.walks[2].val.target].data = <<0, 1, 0, 1>>

(* C7: with sk_targets and T >= 3, forward emits one walk per length 1..T-2,
   in order, and builds no backward matrices. *)
C7_SinkhornWalks ==
    (/\ ret.in.called
     /\ args.sk_targets
     /\ ret.in.mask = "None"
     /\ ~ret.in.just_feats
     /\ ret.in.x.T >= 3) =>
        /\ ret.out.outcome = "returned"
        /\ Len(ret.out.walks) = ret.in.x.T - 2
        /\ \A j \in 1..Len(ret.out.walks) : ret.out.walks[j].key = <<"sk", Str(j)>>
        /\ ret.out.A21s = <<>>

(* C8: in either input regime forward returns: the pair (embeddings, feature
   maps) when just_feats is true, the triple (embeddings, loss, diagnostics)
   when it is false. *)
C8_ForwardReturns ==
    (ret.in.called /\ ~args.sk_targets) =>
        /\ ret.out.outcome = "returned"
        /\ ret.in.just_feats => (Len(ret.out.value) = 2 /\ ret.out.value[1] = "q")
        /\ ~ret.in.just_feats => ret.out.value = <<"q", "loss", "diags">>

Alternates(h) ==
    \A j \in 1..Len(h) : h[j].op = IF j % 2 = 1 THEN "Linear" ELSE "ReLU"

(* C9, as stated: the head of depth 0 holds no linear transform; a head of
   depth d > 0 alternates linear transform and ReLU and ends with a linear
   transform. *)
C9_DepthZeroIsIdentity ==
    /\ args.head_depth = 0 => \A j \in 1..Len(selfsim_fc) : selfsim_fc[j].op # "Linear"
    /\ args.head_depth > 0 =>
         (Alternates(selfsim_fc) /\ selfsim_fc[Len(selfsim_fc)].op = "Linear")

(* C9, amended: the head of depth d >= 0 holds d + 1 linear transforms with a
   ReLU between every two of them and ends with a linear transform, so depth
   0 is one linear transform; only a negative depth gives the identity. *)
C9_HeadLayers ==
    /\ args.head_depth < 0 => selfsim_fc = <<>>
    /\ args.head_depth >= 0 =>
         /\ Len(selfsim_fc) = 2 * args.head_depth + 1
         /\ Alternates(selfsim_fc)
         /\ selfsim_fc[Len(selfsim_fc)].op = "Linear"
         /\ selfsim_fc[1] = Linear(HidDim, IF args.head_depth = 0 THEN OutDim ELSE HidDim)

C9_Witness ==
    /\ args.head_depth = 0
    /\ selfsim_fc = <<Linear(HidDim, OutDim)>>
    /\ ret.in.called
    /\ ret.out.outcome = "returned"
    /\ ret.out.q.shape[2] = OutDim

---------------------------------------------------------------------------
(* Properties of the cache of targets, checked under SpecCache *)

SameKey(c, d) == c.dev = d.dev /\ c.B = d.B /\ c.N = d.N

C5_SameKeySameArray ==
    \A i \in 1..Len(log) : \A j \in 1..Len(log) :
        /\ SameKey(log[i], log[j]) <=> log[i].ref = log[j].ref
        /\ log[i].key \in DOMAIN xent_cache
        /\ xent_cache[log[i].key] = log[i].ref

C5_EntriesKept ==
    \A k \in DOMAIN xent_cache :
        /\ k \in DOMAIN xent_cache'
        /\ xent_cache'[k] = xent_cache[k]
        /\ heap'[xent_cache[k]] = heap[xent_cache[k]]

(* C5: calls of xent_targets with equal (device, batch size, node count)
   return the same cached array and calls with different ones return
   different arrays; an entry of the cache is never removed or overwritten. *)
C5_CacheIdentity == [](C5_SameKeySameArray) /\ [][C5_EntriesKept]_vars

C5_Witness ==
    /\ Len(log) = 3
    /\ SameKey(log[1], log[3])
    /\ log[1].ref = log[3].ref
    /\ ~SameKey(log[1], log[2])
    /\ log[1].ref # log[2].ref

---------------------------------------------------------------------------
(* Properties of stoch_mat, checked under SpecStoch *)

(* C10: with an edge-dropout rate of 0, or do_dropout false, stoch_mat writes
   no sentinel into the affinity, and two calls with the same arguments both
   return the softmax of the input as it was given. *)
C10_NoDropoutIsPlainSoftmax ==
    (probe.called /\ (args.dropout = 0 \/ ~probe.do_dropout)) =>
        /\ probe.res1 = probe.res2
        /\ probe.res1 = Softmax(IF probe.zero_diagonal THEN zeroout_diag(probe.A0)
                                ELSE probe.A0)
        /\ probe.A = probe.A0

C10_Witness ==
    /\ probe.called
    /\ args.dropout = 0
    /\ probe.do_dropout
    /\ ~probe.zero_diagonal
    /\ probe.low1 # {}
    /\ Len(probe.A0[1]) = 2
    /\ probe.res1 = Softmax(probe.A0)
    /\ probe.res2 = probe.res1

---------------------------------------------------------------------------
(* Edge dropout and the shared affinity array, checked under Spec *)

(* The draw of the call of stoch_mat that builds A12[k] falls below the rate
   at entry (n, m) of batch b *)
DroppedFor12(k, b, n, m) == <<k, b, n, m>> \in ret.in.low

(* The draw of the call that builds A21[k] falls below the rate at entry
   (m, n) of the transposed view, which is entry (n, m) of As[:, k] *)
DroppedFor21(k, b, m, n) == <<(TimeSteps - 1) + k, b, m, n>> \in ret.in.low

(* C11: with a positive edge-dropout rate every edge (n, m) dropped while
   A12[k] is built is overwritten in the shared array As, so it is suppressed
   at the transposed position (m, n) of the input A21[k] is built from, while
   an edge dropped for A21[k] leaves the input and the value of the already
   computed A12[k] as they were. *)
C11_DropoutSharedAffinity ==
    (PalStage /\ args.dropout > 0) =>
        \A k \in 1..(TimeSteps - 1) :
            /\ ret.out.A12s[k] = Softmax(ret.out.seen12[k])
            /\ ret.out.A21s[k] = Softmax(ret.out.seen21[k])
            /\ \A b \in 1..Len(ret.out.As0[k]) :
                 \A n \in 1..Len(ret.out.As0[k][b]) :
                   \A m \in 1..Len(ret.out.As0[k][b][n]) :
                     /\ ret.out.seen12[k][b][n][m] =
                          IF DroppedFor12(k, b, n, m) THEN Sentinel
                          ELSE ret.out.As0[k][b][n][m]
                     /\ ret.out.seen21[k][b][m][n] =
                          IF DroppedFor12(k, b, n, m) \/ DroppedFor21(k, b, m, n)
                          THEN Sentinel ELSE ret.out.As0[k][b][n][m]
                     /\ ret.out.As[k][b][n][m] = ret.out.seen21[k][b][m][n]

C11_Witness ==
    /\ PalStage
    /\ args.dropout > 0
    /\ \E k \in 1..(TimeSteps - 1) :
         \E b \in 1..Len(ret.out.As0[k]) :
           \E n \in 1..Len(ret.out.As0[k][b]) :
             \E m \in 1..Len(ret.out.As0[k][b][n]) :
               /\ n # m
               /\ DroppedFor12(k, b, n, m)
               /\ ret.out.seen21[k][b][m][n] = Sentinel
               /\ ret.out.seen21[k][b][n][m] # Sentinel
               /\ ret.out.A21s[k] # Softmax(Transpose(ret.out.As0[k]))
               /\ ret.out.A12s[k] # Softmax(ret.out.As0[k])

====
